---- MODULE Spec2Model ----
(***************************************************************************)
(* RaffleCaster round lifecycle (App component): the active block, the     *)
(* 1 s game-loop tick, closeBlock with its awaited AI commentary, the      *)
(* 2 s delayed entry confirmation of handleEntry, and the meta state.      *)
(*                                                                         *)
(* React state is modelled by its latest value (all queued updater         *)
(* functions applied, in order).  What a handler's closure or a ref sees   *)
(* is the value of the last render: activeBlockRef / metaStateRef are      *)
(* written by the sync effects of a render, renderedWallet and             *)
(* renderedBalance are the walletAddress / userBalance captured by the     *)
(* closures of that render.  Timer callbacks are macrotasks and may run    *)
(* before the render that a previous callback scheduled.                   *)
(*                                                                         *)
(* Money: entry amounts and totalPot are whole currency units; the         *)
(* percentages are integers out of PCT_SCALE, so distribution amounts are  *)
(* in 1/PCT_SCALE units.  Quotients are exact rationals <<num, den>>.      *)
(***************************************************************************)
EXTENDS Integers, Sequences, FiniteSets, TLC

\* ---- program constants (src/constants.ts) ----
ENTRY_COST == 2
MAX_POT_SIZE == 2600
MAX_BLOCK_DURATION_MS == 7200000
META_RAFFLE_THRESHOLD == 100
WINNER_PCT == 90
HOUSE_PCT == 2
SPREAD_PCT == 8
TOP_CONTRIBUTORS_COUNT == 20
PCT_SCALE == 100
FAUCET_BALANCE == 5000

\* ---- bounds of the model ----
MaxEntries == 2
MaxCloses == 2
MaxPending == 2
MaxNow == 7200000
MaxConnects == 2

\* ---- inputs ----
Accounts == {"0xa", "0xb"}
Amounts == {2, 2600}
TimeSteps == {7200000}

NoAddr == "none"
HOUSE == "HOUSE"

\* now: Date.now().  pendingTx: the handleEntry timeouts not yet fired, in
\* firing order.  closing: the closeBlock calls that reached the await of
\* generateBlockCommentary, each with its finalBlock.  nextEntryId: the next
\* fresh entry id (crypto.randomUUID).  History only: connects counts the
\* wallet connections, lastOp names the kind of the last step, and the
\* submittedTo field of an entry is the id of the block that the submitting
\* handleEntry call saw as current.  currentTime, Entry.username and
\* Entry.timestamp are display data that no decision reads; they are left out.
VARIABLES now, activeBlock, completedBlocks, walletAddress,
          userBalance, isProcessingTx, metaState, activeBlockRef,
          metaStateRef, renderedWallet, renderedBalance, pendingTx,
          closing, nextEntryId, connects, lastOp

vars == <<now, activeBlock, completedBlocks, walletAddress,
          userBalance, isProcessingTx, metaState, activeBlockRef,
          metaStateRef, renderedWallet, renderedBalance, pendingTx,
          closing, nextEntryId, connects, lastOp>>

\* ---- exact rationals <<num, den>>, den > 0; <<0, 0>> is NaN ----
RECURSIVE GCD(_, _)
GCD(a, b) == IF b = 0 THEN a ELSE GCD(b, a % b)

Abs(x) == IF x < 0 THEN -x ELSE x

Rat(n, d) ==
  IF d = 0 THEN <<0, 0>>
  ELSE LET g == GCD(Abs(n), Abs(d))
           s == IF d < 0 THEN -1 ELSE 1
       IN <<s * (n \div g), s * (d \div g)>>

RatAdd(p, q) ==
  IF p[2] = 0 \/ q[2] = 0 THEN <<0, 0>>
  ELSE Rat(p[1] * q[2] + q[1] * p[2], p[2] * q[2])

\* p < q ; every comparison with NaN is false
RatLess(p, q) == p[2] # 0 /\ q[2] # 0 /\ p[1] * q[2] < q[1] * p[2]

\* a whole number of currency units as a rational number of 1/PCT_SCALE units
Units(n) == <<n * PCT_SCALE, 1>>

\* ---- types.ts ----
NullDistribution == [isNull |-> TRUE, winnerAmount |-> 0, houseAmount |-> 0,
                     spreadAmount |-> 0, spreadRecipients |-> <<>>]

NoBlock == [id |-> 0, startTime |-> 0, endTime |-> -1, entries |-> <<>>,
            status |-> "null", totalPot |-> 0, winnerId |-> NoAddr,
            distribution |-> NullDistribution, aiCommentary |-> ""]

\* variant: the new block is stamped with an end time
createNewBlockEnded(id, t) ==
  [id |-> id, startTime |-> t, endTime |-> t, entries |-> <<>>,
   status |-> "active", totalPot |-> 0, winnerId |-> NoAddr,
   distribution |-> NullDistribution, aiCommentary |-> ""]

createNewBlock(id, t) ==
  [id |-> id, startTime |-> t, endTime |-> -1, entries |-> <<>>,
   status |-> "active", totalPot |-> 0, winnerId |-> NoAddr,
   distribution |-> NullDistribution, aiCommentary |-> ""]

ZeroDistribution == [isNull |-> FALSE, winnerAmount |-> 0, houseAmount |-> 0,
                     spreadAmount |-> 0, spreadRecipients |-> <<>>]

\* ---- handleEntry: the updater of setActiveBlock (entries and totalPot) ----
\* variant: the entry is appended but the pot is not raised
appendEntryKeepPot(prev, entry, amount) ==
  IF prev = NoBlock THEN NoBlock
  ELSE [prev EXCEPT !.entries = Append(prev.entries, entry)]

appendEntry(prev, entry, amount) ==
  IF prev = NoBlock THEN NoBlock
  ELSE [prev EXCEPT !.entries = Append(prev.entries, entry),
                    !.totalPot = prev.totalPot + amount]

\* ---- closeBlock: the pure computation before the await ----
\* Map.set on a Map kept as a sequence of [userId, amount] in insertion order
mapAdd(m, uid, amt) ==
  IF \E i \in 1..Len(m) : m[i].userId = uid
  THEN [i \in 1..Len(m) |->
          IF m[i].userId = uid
          THEN [userId |-> uid, amount |-> m[i].amount + amt]
          ELSE m[i]]
  ELSE Append(m, [userId |-> uid, amount |-> amt])

\* entries.forEach(e => map.set(e.userId, (map.get(e.userId) || 0) + e.amount))
RECURSIVE addEntries(_, _)
addEntries(m, es) ==
  IF es = <<>> THEN m
  ELSE addEntries(mapAdd(m, es[1].userId, es[1].amount), Tail(es))

\* insert x behind every element whose amount is >= x.amount (stable)
RECURSIVE insertDesc(_, _)
insertDesc(s, x) ==
  IF s = <<>> THEN <<x>>
  ELSE IF s[1].amount >= x.amount
       THEN <<s[1]>> \o insertDesc(Tail(s), x)
       ELSE <<x>> \o s

\* Array.prototype.sort((a, b) => b[1] - a[1]), which is stable
RECURSIVE sortDesc(_)
sortDesc(s) ==
  IF s = <<>> THEN <<>>
  ELSE insertDesc(sortDesc(SubSeq(s, 1, Len(s) - 1)), s[Len(s)])

slice(s, n) == SubSeq(s, 1, IF Len(s) < n THEN Len(s) ELSE n)

\* variant: the first TOP_CONTRIBUTORS_COUNT contributors, unsorted
sortedContribsUnsorted(block) ==
  slice(addEntries(<<>>, block.entries), TOP_CONTRIBUTORS_COUNT)

sortedContribs(block) ==
  slice(sortDesc(addEntries(<<>>, block.entries)), TOP_CONTRIBUTORS_COUNT)

RECURSIVE sumAmt(_)
sumAmt(s) == IF s = <<>> THEN 0 ELSE s[1].amount + sumAmt(Tail(s))

winnerAmountOf(totalPot) == totalPot * WINNER_PCT
houseAmountOf(totalPot) == totalPot * HOUSE_PCT
\* variant: the spread is taken at the winner's rate
spreadTotalAtWinnerPct(totalPot) == totalPot * WINNER_PCT

spreadTotalOf(totalPot) == totalPot * SPREAD_PCT

\* variant: the shares are taken of the whole pot, not of the selected
\* contributors' total
spreadRecipientsOverPot(block) ==
  LET top == sortedContribs(block)
  IN [i \in 1..Len(top) |->
        [userId |-> top[i].userId,
         amount |-> Rat(top[i].amount * spreadTotalOf(block.totalPot),
                        block.totalPot)]]

\* (amt / totalTopContribAmount) * spreadTotal, exactly
spreadRecipientsOf(block) ==
  LET top == sortedContribs(block)
      totalTopContribAmount == sumAmt(top)
  IN [i \in 1..Len(top) |->
        [userId |-> top[i].userId,
         amount |-> Rat(top[i].amount * spreadTotalOf(block.totalPot),
                        totalTopContribAmount)]]

distributionOf(block) ==
  IF Len(block.entries) = 0 THEN ZeroDistribution
  ELSE [isNull |-> FALSE,
        winnerAmount |-> winnerAmountOf(block.totalPot),
        houseAmount |-> houseAmountOf(block.totalPot),
        spreadAmount |-> spreadTotalOf(block.totalPot),
        spreadRecipients |-> spreadRecipientsOf(block)]

\* Math.floor(Math.random() * totalEntries), 1-based; no draw on an empty block
drawIndex(block) ==
  IF Len(block.entries) > 0 THEN 1..Len(block.entries) ELSE {0}

\* variant: every block goes to the house
winnerIdOfHouse(block, winnerIndex) == HOUSE

winnerIdOf(block, winnerIndex) ==
  IF Len(block.entries) > 0 THEN block.entries[winnerIndex].userId ELSE HOUSE

finalBlockOf(block, winnerIndex, t) ==
  [block EXCEPT !.endTime = t, !.status = "completed",
                !.winnerId = winnerIdOf(block, winnerIndex),
                !.distribution = distributionOf(block)]

\* step 4 of closeBlock: the two setUserBalance(prev => prev + ...) calls
creditedBalance(prev, wallet, block, winnerIndex) ==
  IF Len(block.entries) = 0 THEN prev
  ELSE LET d == distributionOf(block)
           afterWin == IF wallet # NoAddr /\ winnerIdOf(block, winnerIndex) = wallet
                       THEN RatAdd(prev, <<d.winnerAmount, 1>>)
                       ELSE prev
           mine == {i \in 1..Len(d.spreadRecipients) :
                      wallet # NoAddr /\ d.spreadRecipients[i].userId = wallet}
       IN IF mine = {} THEN afterWin
          ELSE LET first == CHOOSE i \in mine : \A j \in mine : i <= j
               IN RatAdd(afterWin, d.spreadRecipients[first].amount)

\* step 6 of closeBlock: the meta state after one more completed block
nextMetaState(ref, block) ==
  LET nextBlockCount == ref.blocksCompleted + 1
      newContributorsMap == addEntries(ref.topContributors, block.entries)
  IN [blocksCompleted |-> nextBlockCount,
      topContributors |-> IF nextBlockCount % META_RAFFLE_THRESHOLD = 0
                          THEN <<>> ELSE newContributorsMap]

\* ---- game loop: the conditions of one tick ----
isTimeExpired(b, t) == (t - b.startTime) >= MAX_BLOCK_DURATION_MS
\* variant: a pot of exactly MAX_POT_SIZE is not yet full
isPotFullStrict(b) == b.totalPot > MAX_POT_SIZE

isPotFull(b) == b.totalPot >= MAX_POT_SIZE

\* variant: an expired block is closed whether or not it has entries
shouldCloseWhenExpired(b, t) == isTimeExpired(b, t) \/ isPotFull(b)

shouldClose(b, t) == (isTimeExpired(b, t) /\ Len(b.entries) > 0) \/ isPotFull(b)
shouldRestart(b, t) == ~shouldClose(b, t) /\ isTimeExpired(b, t) /\ Len(b.entries) = 0

InitialMetaState == [blocksCompleted |-> 0, topContributors |-> <<>>]

Init ==
  /\ now = 0
  /\ activeBlock = createNewBlock(1, 0)
  /\ completedBlocks = <<>>
  /\ walletAddress = NoAddr
  /\ userBalance = Units(0)
  /\ isProcessingTx = FALSE
  /\ metaState = InitialMetaState
  /\ activeBlockRef = NoBlock
  /\ metaStateRef = InitialMetaState
  /\ renderedWallet = NoAddr
  /\ renderedBalance = Units(0)
  /\ pendingTx = <<>>
  /\ closing = <<>>
  /\ nextEntryId = 1
  /\ connects = 0
  /\ lastOp = "other"

\* React re-renders with the latest state and runs the ref-sync effects.
Render ==
  /\ \/ activeBlockRef # activeBlock
     \/ metaStateRef # metaState
     \/ renderedWallet # walletAddress
     \/ renderedBalance # userBalance
  /\ activeBlockRef' = activeBlock
  /\ metaStateRef' = metaState
  /\ renderedWallet' = walletAddress
  /\ renderedBalance' = userBalance
  /\ lastOp' = "other"
  /\ UNCHANGED <<now, activeBlock, completedBlocks,
                 walletAddress, userBalance, isProcessingTx, metaState,
                 pendingTx, closing, nextEntryId, connects>>

\* Date.now() moves on.
Advance(d) ==
  /\ now + d <= MaxNow
  /\ now' = now + d
  /\ lastOp' = "other"
  /\ UNCHANGED <<activeBlock, completedBlocks, walletAddress,
                 userBalance, isProcessingTx, metaState, activeBlockRef,
                 metaStateRef, renderedWallet, renderedBalance, pendingTx,
                 closing, nextEntryId, connects>>

connectWallet(a) ==
  /\ connects < MaxConnects
  /\ connects' = connects + 1
  /\ walletAddress' = a
  /\ userBalance' = Units(FAUCET_BALANCE)
  /\ lastOp' = "other"
  /\ UNCHANGED <<now, activeBlock, completedBlocks,
                 isProcessingTx, metaState, activeBlockRef, metaStateRef,
                 renderedWallet, renderedBalance, pendingTx, closing,
                 nextEntryId>>

\* ---- handleEntry(amount): the synchronous part ----
handleEntryRejected(amount) ==
  /\ \/ activeBlockRef = NoBlock
     \/ renderedWallet = NoAddr
     \/ RatLess(renderedBalance, Units(amount))
  /\ lastOp' = "entry"
  /\ UNCHANGED <<now, activeBlock, completedBlocks,
                 walletAddress, userBalance, isProcessingTx, metaState,
                 activeBlockRef, metaStateRef, renderedWallet,
                 renderedBalance, pendingTx, closing, nextEntryId, connects>>

handleEntrySubmitted(amount) ==
  /\ activeBlockRef # NoBlock
  /\ renderedWallet # NoAddr
  /\ ~RatLess(renderedBalance, Units(amount))
  /\ Len(pendingTx) < MaxPending
  /\ nextEntryId + Len(pendingTx) <= MaxEntries
  /\ isProcessingTx' = TRUE
  /\ pendingTx' = Append(pendingTx, [amount |-> amount,
                                     userId |-> renderedWallet,
                                     submittedTo |-> activeBlockRef.id])
  /\ lastOp' = "entry"
  /\ UNCHANGED <<now, activeBlock, completedBlocks,
                 walletAddress, userBalance, metaState, activeBlockRef,
                 metaStateRef, renderedWallet, renderedBalance, closing,
                 nextEntryId, connects>>

handleEntry(amount) == handleEntryRejected(amount) \/ handleEntrySubmitted(amount)

\* ---- handleEntry: the setTimeout callback, 2 s later (timers fire in order) ----
confirmEntry ==
  /\ pendingTx # <<>>
  /\ LET tx == Head(pendingTx)
         entry == [id |-> nextEntryId, userId |-> tx.userId,
                   amount |-> tx.amount,
                   submittedTo |-> tx.submittedTo]
     IN /\ userBalance' = RatAdd(userBalance, Units(-tx.amount))
        /\ activeBlock' = appendEntry(activeBlock, entry, tx.amount)
  /\ pendingTx' = Tail(pendingTx)
  /\ nextEntryId' = nextEntryId + 1
  /\ isProcessingTx' = FALSE
  /\ lastOp' = "other"
  /\ UNCHANGED <<now, completedBlocks, walletAddress, metaState,
                 activeBlockRef, metaStateRef, renderedWallet,
                 renderedBalance, closing, connects>>

\* ---- game loop tick ----
\* no current block for the ticker, or it is not active: return
tickReturn ==
  /\ activeBlockRef = NoBlock \/ activeBlockRef.status # "active"
  /\ lastOp' = "tick"
  /\ UNCHANGED <<now, activeBlock, completedBlocks, walletAddress,
                 userBalance, isProcessingTx, metaState, activeBlockRef,
                 metaStateRef, renderedWallet, renderedBalance, pendingTx,
                 closing, nextEntryId, connects>>

\* closeBlock(currentBlock) up to the await of generateBlockCommentary
tickClose ==
  /\ activeBlockRef # NoBlock /\ activeBlockRef.status = "active"
  /\ shouldClose(activeBlockRef, now)
  /\ Len(completedBlocks) + Len(closing) < MaxCloses
  /\ \E winnerIndex \in drawIndex(activeBlockRef) :
       /\ userBalance' = creditedBalance(userBalance, renderedWallet,
                                         activeBlockRef, winnerIndex)
       /\ closing' = Append(closing,
                       [finalBlock |-> finalBlockOf(activeBlockRef, winnerIndex, now),
                        call |-> "pending"])
  /\ activeBlock' = IF activeBlock # NoBlock
                    THEN [activeBlock EXCEPT !.status = "processing"]
                    ELSE NoBlock
  /\ lastOp' = "tick"
  /\ UNCHANGED <<now, completedBlocks, walletAddress, isProcessingTx,
                 metaState, activeBlockRef, metaStateRef, renderedWallet,
                 renderedBalance, pendingTx, nextEntryId, connects>>

\* time expired and no entries: restart the timer
tickRestart ==
  /\ activeBlockRef # NoBlock /\ activeBlockRef.status = "active"
  /\ shouldRestart(activeBlockRef, now)
  /\ activeBlock' = IF activeBlock # NoBlock
                    THEN [activeBlock EXCEPT !.startTime = now]
                    ELSE NoBlock
  /\ lastOp' = "tick"
  /\ UNCHANGED <<now, completedBlocks, walletAddress, userBalance,
                 isProcessingTx, metaState, activeBlockRef, metaStateRef,
                 renderedWallet, renderedBalance, pendingTx, closing,
                 nextEntryId, connects>>

tickKeep ==
  /\ activeBlockRef # NoBlock /\ activeBlockRef.status = "active"
  /\ ~shouldClose(activeBlockRef, now)
  /\ ~shouldRestart(activeBlockRef, now)
  /\ lastOp' = "tick"
  /\ UNCHANGED <<now, activeBlock, completedBlocks, walletAddress,
                 userBalance, isProcessingTx, metaState, activeBlockRef,
                 metaStateRef, renderedWallet, renderedBalance, pendingTx,
                 closing, nextEntryId, connects>>

tick == tickReturn \/ tickClose \/ tickRestart \/ tickKeep

\* ---- closeBlock after the await: commentary, meta state, next block ----
RemoveAt(s, i) == SubSeq(s, 1, i - 1) \o SubSeq(s, i + 1, Len(s))

closeBlockResume(i) ==
  /\ i \in 1..Len(closing)
  /\ closing[i].call = "pending"
  /\ LET finalBlock == [closing[i].finalBlock EXCEPT !.aiCommentary = "text"]
     IN /\ metaState' = nextMetaState(metaStateRef, finalBlock)
        /\ completedBlocks' = <<finalBlock>> \o completedBlocks
        /\ activeBlock' = createNewBlock(finalBlock.id + 1, now)
  /\ closing' = RemoveAt(closing, i)
  /\ lastOp' = "other"
  /\ UNCHANGED <<now, walletAddress, userBalance,
                 isProcessingTx, activeBlockRef, metaStateRef,
                 renderedWallet, renderedBalance, pendingTx, nextEntryId, connects>>

\* generateBlockCommentary rejects: the await throws and closeBlock ends there
commentaryRejects(i) ==
  /\ i \in 1..Len(closing)
  /\ closing[i].call = "pending"
  /\ closing' = [closing EXCEPT ![i].call = "rejected"]
  /\ lastOp' = "other"
  /\ UNCHANGED <<now, activeBlock, completedBlocks,
                 walletAddress, userBalance, isProcessingTx, metaState,
                 activeBlockRef, metaStateRef, renderedWallet,
                 renderedBalance, pendingTx, nextEntryId, connects>>

\* generateBlockCommentary never settles: closeBlock stays suspended
commentaryNeverReturns(i) ==
  /\ i \in 1..Len(closing)
  /\ closing[i].call = "pending"
  /\ closing' = [closing EXCEPT ![i].call = "hung"]
  /\ lastOp' = "other"
  /\ UNCHANGED <<now, activeBlock, completedBlocks,
                 walletAddress, userBalance, isProcessingTx, metaState,
                 activeBlockRef, metaStateRef, renderedWallet,
                 renderedBalance, pendingTx, nextEntryId, connects>>

Next ==
  \/ Render
  \/ \E d \in TimeSteps : Advance(d)
  \/ \E a \in Accounts : connectWallet(a)
  \/ \E amount \in Amounts : handleEntry(amount)
  \/ confirmEntry
  \/ tick
  \/ \E i \in 1..MaxCloses : closeBlockResume(i)
  \/ \E i \in 1..MaxCloses : commentaryRejects(i)
  \/ \E i \in 1..MaxCloses : commentaryNeverReturns(i)

Spec == Init /\ [][Next]_vars

\* The same program when handleEntry is called with any number, not only
\* with the amounts the entry buttons are expected to pass.
AnyAmounts == {-2, 0, 3}

AnyAmountNext ==
  \/ Render
  \/ \E d \in TimeSteps : Advance(d)
  \/ \E a \in Accounts : connectWallet(a)
  \/ \E amount \in AnyAmounts : handleEntry(amount)
  \/ confirmEntry
  \/ tick
  \/ \E i \in 1..MaxCloses : closeBlockResume(i)
  \/ \E i \in 1..MaxCloses : commentaryRejects(i)
  \/ \E i \in 1..MaxCloses : commentaryNeverReturns(i)

AnyAmountSpec == Init /\ [][AnyAmountNext]_vars

\* A crowded round.  The rounds before it (as many as MaxCloses leaves room
\* for besides one more closure) were each filled by one entry of
\* MAX_POT_SIZE by the first wallet and completed.  In the round that is
\* open, the first n wallets of CrowdAddrs have entered once, in that order,
\* the wallets at positions p and n with 2 * ENTRY_COST and the others with
\* ENTRY_COST, and the wallet at position r (if r > 0) has entered a second
\* time with ENTRY_COST; everything is confirmed and rendered.  All rounds
\* began MAX_BLOCK_DURATION_MS before the origin of the clock, so the time
\* of the open round is up.
CrowdAddrs == <<"0x01", "0x02", "0x03", "0x04", "0x05", "0x06", "0x07", "0x08",
                "0x09", "0x10", "0x11", "0x12", "0x13", "0x14", "0x15", "0x16",
                "0x17", "0x18", "0x19", "0x20", "0x21", "0x22">>
CrowdSizes == {20, 22}
CrowdEarlier == MaxCloses - 1

crowdEarlierRound(j) ==
  LET filled == [createNewBlock(j, -MAX_BLOCK_DURATION_MS) EXCEPT
                   !.entries = <<[id |-> j, userId |-> CrowdAddrs[1],
                                  amount |-> MAX_POT_SIZE, submittedTo |-> j]>>,
                   !.totalPot = MAX_POT_SIZE]
  IN [finalBlockOf(filled, 1, -MAX_BLOCK_DURATION_MS) EXCEPT
        !.aiCommentary = "text"]

\* completedBlocks lists the latest round first
crowdEarlierRounds ==
  [j \in 1..CrowdEarlier |-> crowdEarlierRound(CrowdEarlier - j + 1)]

RECURSIVE crowdMetaState(_)
crowdMetaState(j) ==
  IF j = 0 THEN InitialMetaState
  ELSE nextMetaState(crowdMetaState(j - 1), crowdEarlierRound(j))

crowdEntries(n, p, r) ==
  [i \in 1..n |-> [id |-> CrowdEarlier + i, userId |-> CrowdAddrs[i],
                   amount |-> IF i \in {p, n} THEN 2 * ENTRY_COST ELSE ENTRY_COST,
                   submittedTo |-> CrowdEarlier + 1]]
  \o (IF r = 0 THEN <<>>
      ELSE <<[id |-> CrowdEarlier + n + 1, userId |-> CrowdAddrs[r],
              amount |-> ENTRY_COST, submittedTo |-> CrowdEarlier + 1]>>)

crowdBlock(es) ==
  [createNewBlock(CrowdEarlier + 1, -MAX_BLOCK_DURATION_MS) EXCEPT
     !.entries = es, !.totalPot = sumAmt(es)]

\* the balance of the wallet that entered last: the faucet amount of its
\* connection less what it entered since
crowdBalance(es, n, r) ==
  Units(FAUCET_BALANCE - es[Len(es)].amount
        - (IF r = n THEN es[n].amount ELSE 0))

CrowdInit ==
  \E n \in CrowdSizes : \E p \in {1, n} : \E r \in {0, n} :
    LET es == crowdEntries(n, p, r)
    IN /\ now = 0
       /\ activeBlock = crowdBlock(es)
       /\ activeBlockRef = crowdBlock(es)
       /\ completedBlocks = crowdEarlierRounds
       /\ walletAddress = es[Len(es)].userId
       /\ renderedWallet = es[Len(es)].userId
       /\ userBalance = crowdBalance(es, n, r)
       /\ renderedBalance = crowdBalance(es, n, r)
       /\ isProcessingTx = FALSE
       /\ metaState = crowdMetaState(CrowdEarlier)
       /\ metaStateRef = crowdMetaState(CrowdEarlier)
       /\ pendingTx = <<>>
       /\ closing = <<>>
       /\ nextEntryId = CrowdEarlier + Len(es) + 1
       /\ connects = MaxConnects
       /\ lastOp = "other"

\* from there: time passes, the game loop ticks, closeBlock runs
CrowdNext ==
  \/ Render
  \/ \E d \in TimeSteps : Advance(d)
  \/ tick
  \/ \E i \in 1..MaxCloses : closeBlockResume(i)
  \/ \E i \in 1..MaxCloses : commentaryRejects(i)
  \/ \E i \in 1..MaxCloses : commentaryNeverReturns(i)

CrowdSpec == CrowdInit /\ [][CrowdNext]_vars

\* The scheduling the runtime guarantees for a closure: a closeBlock whose
\* commentary promise is still to resolve is resumed when it does.
FairSpec ==
  /\ Spec
  /\ \A i \in 1..MaxCloses : WF_vars(closeBlockResume(i))

\* ======================= properties =======================

RECURSIVE SumEntryAmounts(_)
SumEntryAmounts(es) ==
  IF es = <<>> THEN 0 ELSE es[1].amount + SumEntryAmounts(Tail(es))

\* every round record the program holds: the current one, the completed
\* ones and the final blocks of the closeBlock calls in flight
CompletedIds == {completedBlocks[j].id : j \in 1..Len(completedBlocks)}

\* C1: no entry is appended to, and totalPot is never raised on, a round
\* whose status is processing or completed.
C1_NoAppendOutsideActive ==
  [][(activeBlock.status \in {"processing", "completed"}
      /\ activeBlock'.id = activeBlock.id
      /\ activeBlock'.status = activeBlock.status)
     => /\ Len(activeBlock'.entries) <= Len(activeBlock.entries)
        /\ activeBlock'.totalPot <= activeBlock.totalPot]_vars

\* C2: totalPot equals the sum of the entry amounts, for the current round
\* and for every completed round, in every reachable state.
C2_PotIsSumOfEntries ==
  /\ activeBlock.totalPot = SumEntryAmounts(activeBlock.entries)
  /\ \A j \in 1..Len(completedBlocks) :
       completedBlocks[j].totalPot = SumEntryAmounts(completedBlocks[j].entries)

C2_Witness ==
  /\ Len(completedBlocks) >= 1
  /\ completedBlocks[1].totalPot > 0
  /\ Len(activeBlock.entries) >= 1
  /\ activeBlock.totalPot > 0

\* C3: exactly one round has status active in every reachable state.
C3_ExactlyOneActive ==
  Cardinality({b \in {activeBlock} \cup
                      {completedBlocks[j] : j \in 1..Len(completedBlocks)} :
                 b.status = "active"}) = 1

\* C4: while a round's commentary call is pending, the completed record of
\* that round is already published and its successor is the current round.
C4_CommentaryDoesNotBlock ==
  \A i \in 1..Len(closing) :
    closing[i].call = "pending"
      => /\ closing[i].finalBlock.id \in CompletedIds
         /\ activeBlock.id = closing[i].finalBlock.id + 1
         /\ activeBlock.status = "active"

\* C5: every round that enters processing is eventually among the completed
\* rounds with its successor as the active current round, whatever the
\* commentary call does.
C5_ProcessingLeadsToCompleted ==
  \A k \in 1..(MaxCloses + 1) :
    (activeBlock.status = "processing" /\ activeBlock.id = k)
      ~> (/\ \E j \in 1..Len(completedBlocks) :
               /\ completedBlocks[j].id = k
               /\ completedBlocks[j].status = "completed"
          /\ activeBlock.id = k + 1
          /\ activeBlock.status = "active")

\* C6: every entry is in the round that was current when it was submitted.
C6_EntryInItsRound ==
  /\ \A n \in 1..Len(activeBlock.entries) :
       activeBlock.entries[n].submittedTo = activeBlock.id
  /\ \A j \in 1..Len(completedBlocks) :
       \A n \in 1..Len(completedBlocks[j].entries) :
         completedBlocks[j].entries[n].submittedTo = completedBlocks[j].id

\* C7: the user's balance is never negative.
C7_BalanceNeverNegative == ~RatLess(userBalance, Units(0))

\* C8: in every completed round the three amounts are 90%, 2% and 8% of
\* totalPot and add up to totalPot (amounts in 1/PCT_SCALE units).
C8_SplitAddsUp ==
  \A j \in 1..Len(completedBlocks) :
    LET b == completedBlocks[j]
        d == b.distribution
    IN /\ d.winnerAmount + d.houseAmount + d.spreadAmount = b.totalPot * PCT_SCALE
       /\ d.winnerAmount * 100 = 90 * b.totalPot * PCT_SCALE
       /\ d.houseAmount * 100 = 2 * b.totalPot * PCT_SCALE
       /\ d.spreadAmount * 100 = 8 * b.totalPot * PCT_SCALE

C8_Witness ==
  \E j \in 1..Len(completedBlocks) :
    /\ completedBlocks[j].totalPot > 0
    /\ completedBlocks[j].distribution.winnerAmount > 0

C10_ExpiredEmptyRoundRestarts ==
  [][(/\ lastOp' = "tick"
      /\ activeBlockRef.status = "active"
      /\ Len(activeBlockRef.entries) = 0
      /\ now - activeBlockRef.startTime >= MAX_BLOCK_DURATION_MS)
     => /\ activeBlock' = [activeBlock EXCEPT !.startTime = now]
        /\ activeBlock'.status = "active"
        /\ UNCHANGED <<completedBlocks, metaState, closing, userBalance,
                       pendingTx>>]_vars

C10_Witness ==
  /\ lastOp = "tick"
  /\ activeBlock.status = "active"
  /\ activeBlock.entries = <<>>
  /\ activeBlock.startTime = now
  /\ now >= MAX_BLOCK_DURATION_MS
  /\ closing = <<>>
  /\ completedBlocks = <<>>
\* C11: blocksCompleted always equals the number of completed rounds, and
\* topContributors is empty right after a completion whose count is a
\* multiple of META_RAFFLE_THRESHOLD.
C11_CountMatchesCompletedRounds ==
  /\ metaState.blocksCompleted = Len(completedBlocks)
  /\ (metaState.blocksCompleted > 0
      /\ metaState.blocksCompleted % META_RAFFLE_THRESHOLD = 0)
       => metaState.topContributors = <<>>
\* C12: the first round has id 1, and the step that publishes a completed
\* round also makes a fresh round current: id one above the completed
\* round's, status active, no entries, totalPot 0, startTime now, and no
\* endTime, winnerId or distribution.
C12_SuccessorCreatedOnCompletion ==
  /\ activeBlock.id = 1
  /\ [][Len(completedBlocks') = Len(completedBlocks) + 1
        => /\ completedBlocks'[1].status = "completed"
           /\ Tail(completedBlocks') = completedBlocks
           /\ activeBlock'.id = completedBlocks'[1].id + 1
           /\ activeBlock'.status = "active"
           /\ activeBlock'.entries = <<>>
           /\ activeBlock'.totalPot = 0
           /\ activeBlock'.startTime = now
           /\ activeBlock'.endTime = -1
           /\ activeBlock'.winnerId = NoAddr
           /\ activeBlock'.distribution = NullDistribution]_vars

C12_Witness ==
  /\ Len(completedBlocks) = 1
  /\ completedBlocks[1].id = 1
  /\ activeBlock.id = 2
  /\ activeBlock.status = "active"
  /\ activeBlock.entries = <<>>
  /\ activeBlock.startTime = now
\* C13: once the current round's totalPot has reached MAX_POT_SIZE no
\* further entry is appended to that round.
C13_FullPotTakesNoMoreEntries ==
  [][(/\ activeBlock.totalPot >= MAX_POT_SIZE
      /\ activeBlock'.id = activeBlock.id)
     => Len(activeBlock'.entries) <= Len(activeBlock.entries)]_vars
\* C14: every entry of every round has an amount that is a positive
\* multiple of ENTRY_COST.
C14_AmountsArePositiveMultiples ==
  \A b \in {activeBlock} \cup {completedBlocks[j] : j \in 1..Len(completedBlocks)} :
    \A n \in 1..Len(b.entries) :
      /\ b.entries[n].amount > 0
      /\ b.entries[n].amount % ENTRY_COST = 0

\* what user u put into the entries es
ContributionOf(es, u) ==
  SumEntryAmounts(SelectSeq(es, LAMBDA e : e.userId = u))

EntrantsOf(es) == {es[n].userId : n \in 1..Len(es)}

RECURSIVE RatSum(_)
RatSum(rs) ==
  IF rs = <<>> THEN <<0, 1>> ELSE RatAdd(rs[1].amount, RatSum(Tail(rs)))

RECURSIVE SelectedTotal(_, _)
SelectedTotal(es, rs) ==
  IF rs = <<>> THEN 0
  ELSE ContributionOf(es, rs[1].userId) + SelectedTotal(es, Tail(rs))

\* C15: in every completed round with at least one entry, each spread
\* recipient receives spreadAmount times its contribution to the round over
\* the sum of the selected contributors' contributions; so the amounts of any
\* two recipients are in the ratio of their contributions, and the
\* recipients' amounts add up to spreadAmount.  (Amounts are exact rational
\* numbers here; the rounding of the program's floating-point division is
\* not represented.)
C15_SpreadIsProportional ==
  \A j \in 1..Len(completedBlocks) :
    LET b == completedBlocks[j]
        d == b.distribution
        rs == d.spreadRecipients
        share(i) == ContributionOf(b.entries, rs[i].userId)
    IN Len(b.entries) > 0 =>
         /\ ~d.isNull
         /\ \A i \in 1..Len(rs) :
              rs[i].amount =
                Rat(share(i) * d.spreadAmount, SelectedTotal(b.entries, rs))
         /\ \A i, k \in 1..Len(rs) :
              rs[i].amount[1] * rs[k].amount[2] * share(k)
                = rs[k].amount[1] * rs[i].amount[2] * share(i)
         /\ RatSum(rs) = <<d.spreadAmount, 1>>

\* a completed round with more contributors than places, whose recipients
\* do not all receive the same
C15_Witness ==
  \E j \in 1..Len(completedBlocks) :
    LET b == completedBlocks[j]
        rs == b.distribution.spreadRecipients
    IN /\ Cardinality(EntrantsOf(b.entries)) > TOP_CONTRIBUTORS_COUNT
       /\ Len(rs) = TOP_CONTRIBUTORS_COUNT
       /\ \E i, k \in 1..Len(rs) : rs[i].amount # rs[k].amount

\* the rounds closeBlock has closed: the completed ones and the final
\* blocks of the calls that have not returned from the commentary
ClosedRounds ==
  {completedBlocks[j] : j \in 1..Len(completedBlocks)}
    \cup {closing[i].finalBlock : i \in 1..Len(closing)}

\* C16: the winner of a closed round with at least one entry is the userId
\* of one of the round's entries; the winner is HOUSE, with an all-zero
\* distribution and no spread recipients, only when the closed round has no
\* entries; and as only rounds with entries are closed, no closed round has
\* the winner HOUSE.
C16_WinnerIsAnEntrant ==
  \A b \in ClosedRounds :
    /\ Len(b.entries) > 0 =>
         /\ b.winnerId \in EntrantsOf(b.entries)
         /\ ~b.distribution.isNull
    /\ b.winnerId = HOUSE =>
         /\ Len(b.entries) = 0
         /\ b.distribution = ZeroDistribution
    /\ Len(b.entries) > 0
    /\ b.winnerId # HOUSE

\* a completed round entered by two wallets and won by the later one
C16_Witness ==
  \E j \in 1..Len(completedBlocks) :
    LET b == completedBlocks[j]
    IN /\ Len(b.entries) = 2
       /\ b.entries[1].userId # b.entries[2].userId
       /\ b.winnerId = b.entries[2].userId

\* the position of u's first entry in es
FirstEntryOf(es, u) ==
  CHOOSE n \in 1..Len(es) :
    es[n].userId = u /\ \A m \in 1..(n - 1) : es[m].userId # u

\* C17: the spread recipients of a closed round are contributors of the
\* round, each listed once, at most TOP_CONTRIBUTORS_COUNT of them (all of
\* them if there are no more); they are in descending order of contribution
\* to the round, contributors of equal contribution in the order of their
\* first entries; a contributor left out has no larger contribution than a
\* listed one (and, if equal, entered later); and rounds with the same
\* entries have the same list.
C17_TopContributorsRanked ==
  \A b \in ClosedRounds :
    LET es == b.entries
        rs == b.distribution.spreadRecipients
        listed == {rs[i].userId : i \in 1..Len(rs)}
        c(u) == ContributionOf(es, u)
        ahead(u, v) ==
          c(u) > c(v) \/ (c(u) = c(v) /\ FirstEntryOf(es, u) < FirstEntryOf(es, v))
    IN /\ listed \subseteq EntrantsOf(es)
       /\ \A i, k \in 1..Len(rs) : i # k => rs[i].userId # rs[k].userId
       /\ Len(rs) <= TOP_CONTRIBUTORS_COUNT
       /\ Len(rs) = TOP_CONTRIBUTORS_COUNT \/ listed = EntrantsOf(es)
       /\ \A i, k \in 1..Len(rs) : i < k => ahead(rs[i].userId, rs[k].userId)
       /\ \A u \in EntrantsOf(es) \ listed : \A v \in listed : ahead(v, u)
       /\ \A b2 \in ClosedRounds :
            b2.entries = es =>
              [i \in 1..Len(rs) |-> rs[i].userId]
                = [i \in 1..Len(b2.distribution.spreadRecipients) |->
                     b2.distribution.spreadRecipients[i].userId]

\* a completed round with more contributors than places, where a later
\* entrant is ranked ahead of an earlier one, two listed contributors are
\* tied, and a contributor left out is tied with the last one listed
C17_Witness ==
  \E j \in 1..Len(completedBlocks) :
    LET b == completedBlocks[j]
        es == b.entries
        rs == b.distribution.spreadRecipients
        listed == {rs[i].userId : i \in 1..Len(rs)}
    IN /\ Cardinality(EntrantsOf(es)) > TOP_CONTRIBUTORS_COUNT
       /\ Len(rs) = TOP_CONTRIBUTORS_COUNT
       /\ \E i, k \in 1..Len(rs) :
            i < k /\ FirstEntryOf(es, rs[i].userId) > FirstEntryOf(es, rs[k].userId)
       /\ \E i, k \in 1..Len(rs) :
            i < k /\ ContributionOf(es, rs[i].userId) = ContributionOf(es, rs[k].userId)
       /\ \E u \in EntrantsOf(es) \ listed :
            ContributionOf(es, u) = ContributionOf(es, rs[Len(rs)].userId)

\* the completed rounds since the last reset of the meta raffle: the record
\* at position j of completedBlocks was the (Len - j + 1)-th to complete
RoundsSinceReset ==
  LET done == metaState.blocksCompleted
      lastReset == (done \div META_RAFFLE_THRESHOLD) * META_RAFFLE_THRESHOLD
  IN {j \in 1..Len(completedBlocks) : Len(completedBlocks) - j + 1 > lastReset}

RECURSIVE SumOverRounds(_, _)
SumOverRounds(js, u) ==
  IF js = {} THEN 0
  ELSE LET j == CHOOSE x \in js : TRUE
       IN ContributionOf(completedBlocks[j].entries, u)
            + SumOverRounds(js \ {j}, u)

MetaUsers ==
  UNION {EntrantsOf(completedBlocks[j].entries) : j \in 1..Len(completedBlocks)}
    \cup {metaState.topContributors[i].userId :
            i \in 1..Len(metaState.topContributors)}

MetaMatchesCompletedRounds ==
  \A u \in MetaUsers :
    LET at == {i \in 1..Len(metaState.topContributors) :
                 metaState.topContributors[i].userId = u}
        entered == \E j \in RoundsSinceReset :
                     u \in EntrantsOf(completedBlocks[j].entries)
    IN IF entered
       THEN /\ Cardinality(at) = 1
            /\ \A i \in at : metaState.topContributors[i].amount
                               = SumOverRounds(RoundsSinceReset, u)
       ELSE at = {}

\* C18: in every state, topContributors[u] is the sum of the amounts of u's
\* entries over the rounds completed since the last reset, and users without
\* such entries are absent; and the meta state changes only in a step that
\* completes a round.
C18_MetaTracksContributions ==
  /\ []MetaMatchesCompletedRounds
  /\ [][metaState' # metaState
          => Len(completedBlocks') = Len(completedBlocks) + 1]_vars

\* the completed rounds are the rounds 1 .. current.id - 1, latest first
RoundsInOrder ==
  /\ activeBlock # NoBlock
  /\ Len(completedBlocks) = activeBlock.id - 1
  /\ \A j \in 1..Len(completedBlocks) :
       completedBlocks[j].id = activeBlock.id - j

\* C19: in every state the list of completed rounds is ordered latest first
\* and holds exactly the ids current.id - 1, current.id - 2, ..., 1, each
\* once: no round is closed or recorded twice and no id is skipped.
C19_CompletedRoundsInOrder == RoundsInOrder

\* as long as no round is recorded twice, the meta state follows the
\* completed rounds
MetaFollowsUnlessRecordedTwice == RoundsInOrder => MetaMatchesCompletedRounds

\* the entries debited so far are those numbered 1 .. nextEntryId - 1: the
\* timeout callback debits the balance and appends the entry in one step
DebitedEntries == 1..(nextEntryId - 1)

\* the places where the entry numbered id is recorded: 0 stands for the
\* current round, j > 0 for the record at position j of completedBlocks
RecordsOf(id) ==
  {<<0, n>> : n \in {m \in 1..Len(activeBlock.entries) :
                       activeBlock.entries[m].id = id}}
    \cup UNION {{<<j, n>> : n \in {m \in 1..Len(completedBlocks[j].entries) :
                                     completedBlocks[j].entries[m].id = id}} :
                 j \in 1..Len(completedBlocks)}

\* every debited entry is recorded somewhere
EveryDebitedEntryIsRecorded == \A id \in DebitedEntries : RecordsOf(id) # {}

\* C20: no debited entry is lost: in every state, every entry whose amount
\* was debited from the balance is contained in exactly one round, the
\* current one or one completed one (so the total debited is the sum of
\* totalPot over these rounds, and the record of a completed round has every
\* entry appended to the round before its successor was created).
C20_DebitedEntryInExactlyOneRound ==
  \A id \in DebitedEntries : Cardinality(RecordsOf(id)) = 1
====
